---- MODULE Spec2Model ----
(***************************************************************************)
(* A model of the Custom-Redis server: the RESP parser (app/parser.py),    *)
(* the in-memory store with expiry (app/redis_database.py) and the         *)
(* per-connection command loop (app/utils.py).                             *)
(*                                                                         *)
(* Bytes and text are sequences of one-character strings.  An ASCII byte   *)
(* and its character are written alike.  The bytes above 0x7F that the     *)
(* requests of this model hold are 0xC3, 0xBF and 0xFF, written "xC3",     *)
(* "xBF" and "xFF": 0xC3 0xBF is the UTF-8 encoding of the character       *)
(* U+00FF, and no other sequence of them is valid UTF-8.  The characters   *)
(* above U+007F are written "U+00C3", "U+00BF", "U+00FF" and "U+0178";     *)
(* their encodings bring the bytes "x83", "xC2", "xC5" and "xB8" into the  *)
(* replies.  Every other byte above 0x7F, and the ASCII control bytes      *)
(* other than tab, line feed and carriage return, are outside the inputs.  *)
(* Time is the event loop clock in microseconds.  Python values are        *)
(* records [t, v] tagged with their type.                                  *)
(***************************************************************************)
EXTENDS Integers, Sequences, FiniteSets, TLC

----------------------------------------------------------------------------
(* Python values *)

PyNone == [t |-> "none", v |-> <<>>]
PyBytes(b) == [t |-> "bytes", v |-> b]
PyStr(s) == [t |-> "str", v |-> s]
PyInt(n) == [t |-> "int", v |-> n]
PyList(l) == [t |-> "list", v |-> l]

(* The outcome of a call: a returned value, or a raised exception whose    *)
(* str() is msg.                                                           *)
Return(val) == [ok |-> TRUE, val |-> val]
Raise(exc, msg) == [ok |-> FALSE, exc |-> exc, msg |-> msg]

CRLF == <<"\r", "\n">>
Digits == <<"0", "1", "2", "3", "4", "5", "6", "7", "8", "9">>
LowerCase == <<"a", "b", "c", "d", "e", "f", "g", "h", "i", "j", "k", "l", "m",
               "n", "o", "p", "q", "r", "s", "t", "u", "v", "w", "x", "y", "z">>
UpperCase == <<"A", "B", "C", "D", "E", "F", "G", "H", "I", "J", "K", "L", "M",
               "N", "O", "P", "Q", "R", "S", "T", "U", "V", "W", "X", "Y", "Z">>
IsDigit(ch) == \E i \in 1..10 : Digits[i] = ch
DigitVal(ch) == (CHOOSE i \in 1..10 : Digits[i] = ch) - 1

(* str.upper(): of the characters of this model, the ASCII lower-case     *)
(* letters and U+00FF, whose upper case is U+0178, have one               *)
upper(s) ==
    [i \in 1..Len(s) |->
        IF \E j \in 1..26 : LowerCase[j] = s[i]
        THEN UpperCase[CHOOSE j \in 1..26 : LowerCase[j] = s[i]]
        ELSE IF s[i] = "U+00FF" THEN "U+0178"
        ELSE s[i]]

(* str(n).encode() for an integer n *)
RECURSIVE NatStr(_)
NatStr(n) == IF n < 10 THEN <<Digits[n + 1]>>
             ELSE NatStr(n \div 10) \o <<Digits[(n % 10) + 1]>>
IntStr(n) == IF n < 0 THEN <<"-">> \o NatStr(0 - n) ELSE NatStr(n)

(* The two hexadecimal digits of a byte above 0x7F *)
HexOf(byte) ==
    CASE byte = "xC3" -> <<"c", "3">>
      [] byte = "xBF" -> <<"b", "f">>
      [] byte = "xFF" -> <<"f", "f">>

(* The escape of one byte or character in repr(): a tab, a line feed, a   *)
(* carriage return and a backslash are written with a backslash, a byte   *)
(* above 0x7F as \x and its two digits; a printable character, ASCII or   *)
(* not, stands for itself.  (The quote, which changes the quotes around,  *)
(* is outside the inputs of this model.)                                  *)
Escaped(ch) ==
    CASE ch = "\t" -> <<"\\", "t">>
      [] ch = "\n" -> <<"\\", "n">>
      [] ch = "\r" -> <<"\\", "r">>
      [] ch = "\\" -> <<"\\", "\\">>
      [] ch \in {"xC3", "xBF", "xFF"} -> <<"\\", "x">> \o HexOf(ch)
      [] OTHER -> <<ch>>

RECURSIVE EscapedAll(_)
EscapedAll(s) == IF s = <<>> THEN <<>> ELSE Escaped(Head(s)) \o EscapedAll(Tail(s))

(* repr() of a bytes object *)
ReprBytes(b) == <<"b", "'">> \o EscapedAll(b) \o <<"'">>

RECURSIVE DigitsVal(_)
DigitsVal(s) == IF s = <<>> THEN 0
                ELSE 10 * DigitsVal(SubSeq(s, 1, Len(s) - 1)) + DigitVal(s[Len(s)])

(* A decimal literal: an optional sign, then one or more digits.          *)
(* (White space, underscores, exponents and the words inf and nan, which   *)
(* Python also reads, are outside the inputs of this model.)              *)
HasSign(s) == Len(s) > 0 /\ s[1] \in {"-", "+"}
Unsigned(s) == IF HasSign(s) THEN Tail(s) ELSE s
IsDecimal(s) == /\ Len(Unsigned(s)) > 0
                /\ \A i \in 1..Len(Unsigned(s)) : IsDigit(Unsigned(s)[i])
DecimalVal(s) == IF HasSign(s) /\ s[1] = "-" THEN 0 - DigitsVal(Unsigned(s))
                 ELSE DigitsVal(Unsigned(s))

(* int(b) for bytes b *)
int(b) ==
    IF IsDecimal(b) THEN Return(DecimalVal(b))
    ELSE Raise("ValueError",
               <<"i", "n", "v", "a", "l", "i", "d", " ", "l", "i", "t", "e", "r", "a", "l", " ", "f", "o", "r", " ", "i", "n", "t", "(", ")", " ", "w", "i", "t", "h", " ", "b", "a", "s", "e", " ", "1", "0", ":", " ">> \o ReprBytes(b))

(* b.decode("utf-8") from the byte at index (0-based), text being the     *)
(* characters decoded before it.  The decoder raises at the first byte    *)
(* that starts no valid sequence: a byte that is no start byte, or 0xC3   *)
(* without a continuation byte after it.                                  *)
RECURSIVE utf8_from(_, _, _)
utf8_from(b, index, text) ==
    IF index >= Len(b) THEN Return(text)
    ELSE IF b[index + 1] \notin {"xC3", "xBF", "xFF"}
    THEN utf8_from(b, index + 1, Append(text, b[index + 1]))
    ELSE IF b[index + 1] = "xC3" /\ index + 1 < Len(b) /\ b[index + 2] = "xBF"
    THEN utf8_from(b, index + 2, Append(text, "U+00FF"))
    ELSE Raise("UnicodeDecodeError",
               <<"'", "u", "t", "f", "-", "8", "'", " ", "c", "o", "d", "e", "c", " ", "c", "a", "n", "'", "t", " ", "d", "e", "c", "o", "d", "e", " ", "b", "y", "t", "e", " ", "0", "x">>
               \o HexOf(b[index + 1])
               \o <<" ", "i", "n", " ", "p", "o", "s", "i", "t", "i", "o", "n", " ">>
               \o NatStr(index) \o <<":", " ">>
               \o (IF b[index + 1] # "xC3"
                   THEN <<"i", "n", "v", "a", "l", "i", "d", " ", "s", "t", "a", "r", "t", " ", "b", "y", "t", "e">>
                   ELSE IF index + 1 < Len(b)
                   THEN <<"i", "n", "v", "a", "l", "i", "d", " ", "c", "o", "n", "t", "i", "n", "u", "a", "t", "i", "o", "n", " ", "b", "y", "t", "e">>
                   ELSE <<"u", "n", "e", "x", "p", "e", "c", "t", "e", "d", " ", "e", "n", "d", " ", "o", "f", " ", "d", "a", "t", "a">>))

(* b.decode("utf-8") for bytes b *)
utf8_decode(b) == utf8_from(b, 0, <<>>)

(* chr(byte): the character whose code point is the byte *)
chr(byte) ==
    CASE byte = "xC3" -> "U+00C3"
      [] byte = "xBF" -> "U+00BF"
      [] byte = "xFF" -> "U+00FF"
      [] OTHER -> byte

(* s.encode() for text s: UTF-8.  ASCII text encodes to itself, a text    *)
(* with other characters to the encodings of its two halves.              *)
RECURSIVE encode(_)
encode(s) ==
    IF \A i \in 1..Len(s) : s[i] \notin {"U+00C3", "U+00BF", "U+00FF", "U+0178"} THEN s
    ELSE IF Len(s) > 1
    THEN encode(SubSeq(s, 1, Len(s) \div 2)) \o encode(SubSeq(s, Len(s) \div 2 + 1, Len(s)))
    ELSE CASE Head(s) = "U+00C3" -> <<"xC3", "x83">>
           [] Head(s) = "U+00BF" -> <<"xC2", "xBF">>
           [] Head(s) = "U+00FF" -> <<"xC3", "xBF">>
           [] Head(s) = "U+0178" -> <<"xC5", "xB8">>
           [] OTHER -> <<Head(s)>>

----------------------------------------------------------------------------
(* app/parser.py: RESPParser.  The parser object is the buffer data and   *)
(* the cursor index (0-based, as in the source); a method returns its     *)
(* outcome together with the cursor it leaves.                            *)

At(data, i) == data[i + 1]
Slice(data, from, to) == SubSeq(data, from + 1, to)

(* data.find(b"\r\n", index) *)
RECURSIVE find_crlf(_, _)
find_crlf(data, index) ==
    IF index + 2 > Len(data) THEN -1
    ELSE IF At(data, index) = "\r" /\ At(data, index + 1) = "\n" THEN index
    ELSE find_crlf(data, index + 1)

Returned(val, index) == [ok |-> TRUE, val |-> val, index |-> index]
Raised(exc, msg, index) == [ok |-> FALSE, exc |-> exc, msg |-> msg, index |-> index]

(* read_line, with end the place of the terminator *)
line_to(data, index, end) ==
    IF end = -1
    THEN Raised("ValueError", <<"I", "n", "c", "o", "m", "p", "l", "e", "t", "e", " ", "l", "i", "n", "e", " ", "i", "n", " ", "R", "E", "S", "P", " ", "d", "a", "t", "a">>, index)
    ELSE Returned(Slice(data, index, end), end + 2)

read_line(data, index) == line_to(data, index, find_crlf(data, index))

(* int(self.read_line()), with line the outcome of read_line and n of int *)
int_of_line(line, n) ==
    IF n.ok THEN Returned(n.val, line.index) ELSE Raised(n.exc, n.msg, line.index)

int_line(line) == IF ~line.ok THEN line ELSE int_of_line(line, int(line.val))

read_length(data, index) == int_line(read_line(data, index))

(* parse_bulk_string after length = int(self.read_line()) *)
bulk_string_of(data, length) ==
    IF ~length.ok THEN length
    ELSE IF length.val < 0 THEN Returned(PyNone, length.index)
    ELSE IF length.index + length.val + 2 > Len(data)
    THEN Raised("ValueError", <<"I", "n", "c", "o", "m", "p", "l", "e", "t", "e", " ", "b", "u", "l", "k", " ", "s", "t", "r", "i", "n", "g">>, length.index)
    ELSE Returned(PyBytes(Slice(data, length.index, length.index + length.val)),
                  length.index + length.val + 2)

parse_bulk_string(data, index) == bulk_string_of(data, read_length(data, index))

(* line.decode("utf-8"), with line the outcome of read_line and s of decode *)
text_of_line(line, s) ==
    IF s.ok THEN Returned(PyStr(s.val), line.index) ELSE Raised(s.exc, s.msg, line.index)

text_line(line) == IF ~line.ok THEN line ELSE text_of_line(line, utf8_decode(line.val))

parse_simple_string(data, index) == text_line(read_line(data, index))

parse_error(data, index) == text_line(read_line(data, index))

integer_of(n) == IF n.ok THEN Returned(PyInt(n.val), n.index) ELSE n

parse_integer(data, index) == integer_of(read_length(data, index))

RECURSIVE parse(_, _)
RECURSIVE parse_elements(_, _, _, _)

(* The body of the loop of parse_array, with element = self.parse() *)
append_element(data, left, array, element) ==
    IF ~element.ok THEN element
    ELSE IF element.val.t = "none"
    THEN Raised("ValueError", <<"I", "n", "c", "o", "m", "p", "l", "e", "t", "e", " ", "a", "r", "r", "a", "y", " ", "e", "l", "e", "m", "e", "n", "t">>, element.index)
    ELSE parse_elements(data, element.index, left - 1, Append(array, element.val))

(* The loop of parse_array: left more elements to read after array *)
parse_elements(data, index, left, array) ==
    IF left = 0 THEN Returned(PyList(array), index)
    ELSE append_element(data, left, array, parse(data, index))

(* parse_array after length = int(self.read_line()) *)
array_of(data, length) ==
    IF ~length.ok THEN length
    ELSE IF length.val < 0 THEN Returned(PyNone, length.index)
    ELSE parse_elements(data, length.index, length.val, <<>>)

parse_array(data, index) == array_of(data, read_length(data, index))

(* parse after the prefix was read, with index past it *)
parse_prefixed(data, index, prefix) ==
    CASE prefix = "*" -> parse_array(data, index)
      [] prefix = "$" -> parse_bulk_string(data, index)
      [] prefix = "+" -> parse_simple_string(data, index)
      [] prefix = "-" -> parse_error(data, index)
      [] prefix = ":" -> parse_integer(data, index)
      [] OTHER -> Raised("ValueError", <<"U", "n", "k", "n", "o", "w", "n", " ", "R", "E", "S", "P", " ", "p", "r", "e", "f", "i", "x", ":", " ">> \o <<prefix>>, index)

parse(data, index) ==
    IF index >= Len(data) THEN Returned(PyNone, index)
    ELSE parse_prefixed(data, index + 1, chr(At(data, index)))

----------------------------------------------------------------------------
(* app/redis_database.py: RedisDatabase.  The database object db is the   *)
(* record [data, expires, order, locked]: data maps the stored keys to    *)
(* values, expires maps the keys with a TTL to their expiry instant,      *)
(* order lists the keys of expires in the order of the dict (the order in *)
(* which they were inserted), locked is the state of self.lock.  time is  *)
(* asyncio.get_event_loop().time().  A method returns the database it     *)
(* leaves and its return value.                                           *)

MsPerSec == 1000
(* The unit of time of the model is the microsecond, the thousandth of a  *)
(* millisecond: a duration read from a literal of at most three fraction  *)
(* digits, in seconds or in milliseconds, is a whole number of them.      *)
UsPerMs == MsPerSec
UsPerSec == UsPerMs * MsPerSec

Without(f, key) == [k \in (DOMAIN f) \ {key} |-> f[k]]
With(f, key, val) == [k \in (DOMAIN f) \union {key} |-> IF k = key THEN val ELSE f[k]]

(* self.expires[key] = instant: a key that is new to the dict goes to its *)
(* end, a key it holds keeps its place                                    *)
expires_setitem(db, key, instant) ==
    [db EXCEPT !.expires = With(db.expires, key, instant),
               !.order = IF key \in DOMAIN db.expires THEN db.order
                         ELSE Append(db.order, key)]

(* del self.expires[key] *)
expires_delitem(db, key) ==
    [db EXCEPT !.expires = Without(db.expires, key),
               !.order = SelectSeq(db.order, LAMBDA k : k # key)]

(* async with self.lock: the lock is taken on entry and released on exit *)
lock_acquire(db) == [db EXCEPT !.locked = TRUE]
(* A lock that stays held when the block is left *)
lock_kept(db) == db

lock_release(db) == [db EXCEPT !.locked = FALSE]

PyBool(b) == [t |-> "bool", v |-> b]

Call(op, key, value, expire, time) ==
    [op |-> op, key |-> key, value |-> value, expire |-> expire, time |-> time]
Logged(db, call, ret) ==
    [db EXCEPT !.calls = Append(db.calls,
        [op |-> call.op, key |-> call.key, value |-> call.value,
         expire |-> call.expire, time |-> call.time, ret |-> ret])]

DbResult(db, call, ret) == [ok |-> TRUE, db |-> Logged(db, call, ret), ret |-> ret]
(* An exception leaves the "async with" block, which releases the lock *)
DbRaise(db, call, exc, msg) ==
    [ok |-> FALSE, db |-> Logged(lock_release(db), call, PyStr(msg)), exc |-> exc, msg |-> msg]

(* repr() of a str; str(KeyError(key)) is repr(key) *)
ReprStr(s) == <<"'">> \o EscapedAll(s) \o <<"'">>

(* A float, as a number of microseconds; expire is PyNone or a PyFloat *)
PyFloat(us) == [t |-> "float", v |-> us]

(* set storing the duration as the expiry instant, without the clock *)
set_without_clock(db, key, value, expire, time) ==
    LET held == lock_acquire(db)
        stored == [held EXCEPT !.data = With(held.data, key, value)]
        done == IF expire.t # "none"
                THEN expires_setitem(stored, key, expire.v)
                ELSE IF key \in DOMAIN stored.expires
                THEN expires_delitem(stored, key)
                ELSE stored
    IN DbResult(lock_release(done), Call("set", key, value, expire, time), PyNone)

(* set without a ttl leaving the expiry the key had *)
set_keeping_expiry(db, key, value, expire, time) ==
    LET held == lock_acquire(db)
        stored == [held EXCEPT !.data = With(held.data, key, value)]
        done == IF expire.t # "none"
                THEN expires_setitem(stored, key, time + expire.v)
                ELSE stored
    IN DbResult(lock_release(done), Call("set", key, value, expire, time), PyNone)

(* set writing the value and leaving the expiry of the key as it was *)
set_value_only(db, key, value, expire, time) ==
    LET held == lock_acquire(db)
        stored == [held EXCEPT !.data = With(held.data, key, value)]
    IN DbResult(lock_release(stored), Call("set", key, value, expire, time), PyNone)

set(db, key, value, expire, time) ==
    LET held == lock_acquire(db)
        stored == [held EXCEPT !.data = With(held.data, key, value)]
        done == IF expire.t # "none"
                THEN expires_setitem(stored, key, time + expire.v)
                ELSE IF key \in DOMAIN stored.expires
                THEN expires_delitem(stored, key)
                ELSE stored
    IN DbResult(lock_release(done), Call("set", key, value, expire, time), PyNone)

(* get removing an expired key from data and leaving it in expires *)
get_data_only(db, key, time) ==
    LET held == lock_acquire(db)
        call == Call("get", key, PyNone, PyNone, time)
    IN IF key \in DOMAIN held.expires /\ time > held.expires[key]
       THEN IF key \notin DOMAIN held.data
            THEN DbRaise(held, call, "KeyError", ReprStr(key))
            ELSE DbResult(lock_release([held EXCEPT !.data = Without(held.data, key)]),
                          call, PyNone)
       ELSE DbResult(lock_release(held), call,
                     IF key \in DOMAIN held.data THEN held.data[key] ELSE PyNone)

get(db, key, time) ==
    LET held == lock_acquire(db)
        call == Call("get", key, PyNone, PyNone, time)
    IN IF key \in DOMAIN held.expires /\ time > held.expires[key]
       THEN IF key \notin DOMAIN held.data
            THEN DbRaise(held, call, "KeyError", ReprStr(key))
            ELSE DbResult(lock_release(expires_delitem(
                              [held EXCEPT !.data = Without(held.data, key)], key)),
                          call, PyNone)
       ELSE DbResult(lock_release(held), call,
                     IF key \in DOMAIN held.data THEN held.data[key] ELSE PyNone)

(* delete without the removal from expires *)
delete_data_only(db, key, time) ==
    LET held == lock_acquire(db)
        done == IF key \in DOMAIN held.data
                THEN [held EXCEPT !.data = Without(held.data, key)]
                ELSE held
    IN DbResult(lock_release(done), Call("delete", key, PyNone, PyNone, time), PyNone)

delete(db, key, time) ==
    LET held == lock_acquire(db)
        removed == [held EXCEPT !.data = Without(held.data, key)]
        done == IF key \in DOMAIN held.data
                THEN IF key \in DOMAIN held.expires
                     THEN expires_delitem(removed, key)
                     ELSE removed
                ELSE held
    IN DbResult(lock_release(done), Call("delete", key, PyNone, PyNone, time), PyNone)

exists(db, key, time) ==
    LET held == lock_acquire(db)
    IN DbResult(lock_release(held), Call("exists", key, PyNone, PyNone, time),
                PyBool(/\ key \in DOMAIN held.data
                       /\ (key \notin DOMAIN held.expires \/ time <= held.expires[key])))

(* A sweep iteration removing the expired keys from data alone *)
remove_expired_keys_from_data(db, time) ==
    LET held == lock_acquire(db)
        expired_keys == {key \in DOMAIN held.expires : held.expires[key] <= time}
    IN DbResult(lock_release([held EXCEPT
                    !.data = [k \in (DOMAIN held.data) \ expired_keys |-> held.data[k]]]),
                Call("remove_expired_keys", <<>>, PyNone, PyNone, time), PyNone)

(* The loop "for key in expired_keys" of remove_expired_keys.  A del of a *)
(* key that data does not hold raises KeyError: the keys before it are    *)
(* removed, the lock is released and the task ends.                       *)
RECURSIVE del_expired(_, _, _)
del_expired(db, expired_keys, call) ==
    IF expired_keys = <<>> THEN DbResult(lock_release(db), call, PyNone)
    ELSE IF Head(expired_keys) \notin DOMAIN db.data
    THEN DbRaise(db, call, "KeyError", ReprStr(Head(expired_keys)))
    ELSE del_expired(expires_delitem(
                         [db EXCEPT !.data = Without(db.data, Head(expired_keys))],
                         Head(expired_keys)),
                     Tail(expired_keys), call)

(* One iteration of the loop of remove_expired_keys, after the sleep:     *)
(* expired_keys is built in the order of the dict expires                 *)
remove_expired_keys(db, time) ==
    del_expired(lock_acquire(db),
                SelectSeq(db.order, LAMBDA key : db.expires[key] <= time),
                Call("remove_expired_keys", <<>>, PyNone, PyNone, time))

----------------------------------------------------------------------------
(* Python operations on values that the command handlers use *)

TypeName(v) ==
    CASE v.t = "bytes" -> <<"b", "y", "t", "e", "s">>
      [] v.t = "str" -> <<"s", "t", "r">>
      [] v.t = "int" -> <<"i", "n", "t">>
      [] v.t = "list" -> <<"l", "i", "s", "t">>
      [] v.t = "float" -> <<"f", "l", "o", "a", "t">>
      [] v.t = "bool" -> <<"b", "o", "o", "l">>
      [] v.t = "none" -> <<"N", "o", "n", "e", "T", "y", "p", "e">>

(* not v *)
falsy(v) ==
    CASE v.t = "none" -> TRUE
      [] v.t = "int" -> v.v = 0
      [] v.t = "float" -> v.v = 0
      [] v.t = "bool" -> ~v.v
      [] OTHER -> Len(v.v) = 0

(* v.decode("utf-8") *)
decode(v) ==
    IF v.t = "bytes" THEN utf8_decode(v.v)
    ELSE Raise("AttributeError",
               <<"'">> \o TypeName(v) \o <<"'", " ", "o", "b", "j", "e", "c", "t", " ", "h", "a", "s", " ", "n", "o", " ", "a", "t", "t", "r", "i", "b", "u", "t", "e", " ", "'", "d", "e", "c", "o", "d", "e", "'">>)

(* b"$" + str(len(v)).encode() + b"\r\n" + v + b"\r\n" *)
bulk_reply(v) ==
    IF v.t \in {"int", "float", "none"}
    THEN Raise("TypeError",
               <<"o", "b", "j", "e", "c", "t", " ", "o", "f", " ", "t", "y", "p", "e", " ", "'">> \o TypeName(v) \o <<"'", " ", "h", "a", "s", " ", "n", "o", " ", "l", "e", "n", "(", ")">>)
    ELSE IF v.t # "bytes"
    THEN Raise("TypeError",
               <<"c", "a", "n", "'", "t", " ", "c", "o", "n", "c", "a", "t", " ">> \o TypeName(v) \o <<" ", "t", "o", " ", "b", "y", "t", "e", "s">>)
    ELSE Return(<<"$">> \o NatStr(Len(v.v)) \o CRLF \o v.v \o CRLF)

(* A float literal: an optional sign, then digits with at most one         *)
(* decimal point among them, before them or after them.  (White space,    *)
(* underscores, exponents and the words inf and nan, which Python also     *)
(* reads, are outside the inputs of this model.)                          *)
PointOf(u) ==
    IF \E i \in 1..Len(u) : u[i] = "."
    THEN CHOOSE i \in 1..Len(u) : u[i] = "." /\ \A j \in 1..(i - 1) : u[j] # "."
    ELSE Len(u) + 1
IntegerDigits(u) == SubSeq(u, 1, PointOf(u) - 1)
FractionDigits(u) == SubSeq(u, PointOf(u) + 1, Len(u))
AllDigits(s) == \A i \in 1..Len(s) : IsDigit(s[i])
IsFloatLiteral(s) ==
    /\ AllDigits(IntegerDigits(Unsigned(s)))
    /\ AllDigits(FractionDigits(Unsigned(s)))
    /\ Len(IntegerDigits(Unsigned(s))) + Len(FractionDigits(Unsigned(s))) > 0

(* The value of a float literal, the unit being a millionth: the digits   *)
(* before the point, then the first six after it.  (The literals of the   *)
(* inputs have at most three fraction digits; digits after the sixth are  *)
(* dropped.)                                                              *)
FloatVal(s) ==
    (IF HasSign(s) /\ s[1] = "-" THEN -1 ELSE 1)
    * (DigitsVal(IntegerDigits(Unsigned(s))) * UsPerSec
       + DigitsVal(SubSeq(FractionDigits(Unsigned(s)) \o <<"0", "0", "0", "0", "0", "0">>, 1, 6)))

(* float(v), in millionths *)
float(v) ==
    CASE v.t = "bytes" ->
           IF IsFloatLiteral(v.v) THEN Return(PyFloat(FloatVal(v.v)))
           ELSE Raise("ValueError",
                      <<"c", "o", "u", "l", "d", " ", "n", "o", "t", " ", "c", "o", "n", "v", "e", "r", "t", " ", "s", "t", "r", "i", "n", "g", " ", "t", "o", " ", "f", "l", "o", "a", "t", ":", " ">> \o ReprBytes(v.v))
      [] v.t = "str" ->
           IF IsFloatLiteral(v.v) THEN Return(PyFloat(FloatVal(v.v)))
           ELSE Raise("ValueError",
                      <<"c", "o", "u", "l", "d", " ", "n", "o", "t", " ", "c", "o", "n", "v", "e", "r", "t", " ", "s", "t", "r", "i", "n", "g", " ", "t", "o", " ", "f", "l", "o", "a", "t", ":", " ">> \o ReprStr(v.v))
      [] v.t = "int" -> Return(PyFloat(v.v * UsPerSec))
      [] OTHER ->
           Raise("TypeError",
                 <<"f", "l", "o", "a", "t", "(", ")", " ", "a", "r", "g", "u", "m", "e", "n", "t", " ", "m", "u", "s", "t", " ", "b", "e", " ", "a", " ", "s", "t", "r", "i", "n", "g", " ", "o", "r", " ", "a", " ", "r", "e", "a", "l", " ", "n", "u", "m", "b", "e", "r", ",", " ", "n", "o", "t", " ", "'">>
                 \o TypeName(v) \o <<"'">>)

----------------------------------------------------------------------------
(* app/utils.py: the command handlers.  A handler that uses the database  *)
(* returns the database it leaves with its response, or with the          *)
(* exception it raised.                                                   *)

Responded(db, response) == [ok |-> TRUE, db |-> db, response |-> response]
Failed(db, exc, msg) == [ok |-> FALSE, db |-> db, exc |-> exc, msg |-> msg]

process_ping == <<"+", "P", "O", "N", "G", "\r", "\n">>

process_echo(message) ==
    IF Len(message) >= 2
    THEN bulk_reply(message[2])
    ELSE Return(<<"-", "E", "R", "R", " ", "w", "r", "o", "n", "g", " ", "n", "u", "m", "b", "e", "r", " ", "o", "f", " ", "a", "r", "g", "u", "m", "e", "n", "t", "s", " ", "f", "o", "r", " ", "'", "e", "c", "h", "o", "'", " ", "c", "o", "m", "m", "a", "n", "d", "\r", "\n">>)

(* process_get after response = b"$" + ... + value + b"\r\n" *)
get_response(db, response) ==
    IF response.ok THEN Responded(db, response.val)
    ELSE Failed(db, response.exc, response.msg)

(* process_get after value = await redis_db.get(key) *)
get_value(value) ==
    IF ~value.ok THEN Failed(value.db, value.exc, value.msg)
    ELSE IF value.ret.t # "none" THEN get_response(value.db, bulk_reply(value.ret))
    ELSE Responded(value.db, <<"$", "-", "1", "\r", "\n">>)

(* process_get after key = str(message[1].decode("utf-8")) *)
get_key(db, key, time) ==
    IF ~key.ok THEN Failed(db, key.exc, key.msg)
    ELSE get_value(get(db, key.val, time))

process_get(db, message, time) ==
    IF Len(message) = 2
    THEN get_key(db, decode(message[2]), time)
    ELSE Responded(db, <<"-", "E", "R", "R", " ", "w", "r", "o", "n", "g", " ", "n", "u", "m", "b", "e", "r", " ", "o", "f", " ", "a", "r", "g", "u", "m", "e", "n", "t", "s", " ", "f", "o", "r", " ", "'", "g", "e", "t", "'", " ", "c", "o", "m", "m", "a", "n", "d", "\r", "\n">>)

(* The branch len(message) == 3 of process_set, with key decoded *)
set_plain(db, key, value, time) ==
    IF ~key.ok THEN Failed(db, key.exc, key.msg)
    ELSE Responded(set(db, key.val, value, PyNone, time).db, <<"+", "O", "K", "\r", "\n">>)

(* set_expiring with a ttl only for the units EX and PX *)
set_expiring_known_units(db, key, value, expire, unit, time) ==
    IF ~key.ok THEN Failed(db, key.exc, key.msg)
    ELSE IF ~expire.ok THEN Failed(db, expire.exc, expire.msg)
    ELSE IF ~unit.ok THEN Failed(db, unit.exc, unit.msg)
    ELSE Responded(set(db, key.val, value,
                       IF upper(unit.val) = <<"P", "X">>
                       THEN PyFloat(expire.val.v \div MsPerSec)
                       ELSE IF upper(unit.val) = <<"E", "X">> THEN expire.val
                       ELSE PyNone,
                       time).db,
                   <<"+", "O", "K", "\r", "\n">>)

(* The branch len(message) == 5 of process_set: key decoded, then        *)
(* expire = float(message[4]), then unit = message[3].decode("utf-8").   *)
(* expire /= 1000 is exact for a magnitude of at most three fraction      *)
(* digits.                                                                *)
set_expiring(db, key, value, expire, unit, time) ==
    IF ~key.ok THEN Failed(db, key.exc, key.msg)
    ELSE IF ~expire.ok THEN Failed(db, expire.exc, expire.msg)
    ELSE IF ~unit.ok THEN Failed(db, unit.exc, unit.msg)
    ELSE Responded(set(db, key.val, value,
                       IF upper(unit.val) = <<"P", "X">>
                       THEN PyFloat(expire.val.v \div MsPerSec)
                       ELSE expire.val,
                       time).db,
                   <<"+", "O", "K", "\r", "\n">>)

process_set(db, message, time) ==
    IF Len(message) = 3
    THEN set_plain(db, decode(message[2]), message[3], time)
    ELSE IF Len(message) = 5
    THEN set_expiring(db, decode(message[2]), message[3], float(message[5]),
                      decode(message[4]), time)
    ELSE Responded(db, <<"-", "E", "R", "R", " ", "w", "r", "o", "n", "g", " ", "n", "u", "m", "b", "e", "r", " ", "o", "f", " ", "a", "r", "g", "u", "m", "e", "n", "t", "s", " ", "f", "o", "r", " ", "'", "s", "e", "t", "'", " ", "c", "o", "m", "m", "a", "n", "d", "\r", "\n">>)

(* The loop of process_del over message[i..], count keys counted so far *)
RECURSIVE del_keys(_, _, _, _, _)

(* if await redis_db.delete(key_str): count += 1 *)
del_counted(message, i, count, time, deleted) ==
    del_keys(deleted.db, message, i + 1,
             IF falsy(deleted.ret) THEN count ELSE count + 1, time)

del_key(db, message, i, count, time, key_str) ==
    IF ~key_str.ok THEN Failed(db, key_str.exc, key_str.msg)
    ELSE del_counted(message, i, count, time, delete(db, key_str.val, time))

del_keys(db, message, i, count, time) ==
    IF i > Len(message)
    THEN Responded(db, <<":">> \o IntStr(count) \o CRLF)
    ELSE del_key(db, message, i, count, time, decode(message[i]))

process_del(db, message, time) ==
    IF Len(message) >= 2
    THEN del_keys(db, message, 2, 0, time)
    ELSE Responded(db, <<"-", "E", "R", "R", " ", "w", "r", "o", "n", "g", " ", "n", "u", "m", "b", "e", "r", " ", "o", "f", " ", "a", "r", "g", "u", "m", "e", "n", "t", "s", " ", "f", "o", "r", " ", "'", "d", "e", "l", "'", " ", "c", "o", "m", "m", "a", "n", "d", "\r", "\n">>)

----------------------------------------------------------------------------
(* The StreamWriter of a connection: buffer holds the replies written and *)
(* not yet drained, sent the replies drained, closed whether close() was  *)
(* called, paused whether the transport paused writing (the client does   *)
(* not read and the transport's buffer is over its high-water mark),      *)
(* reset whether the client has reset the connection, lost whether the    *)
(* transport has lost it (a send or a receive failed), dropped the        *)
(* replies that were written and that the transport never sent.           *)

NewWriter == [buffer |-> <<>>, sent |-> <<>>, closed |-> FALSE, paused |-> FALSE,
              reset |-> FALSE, lost |-> FALSE, dropped |-> <<>>]

(* The transport when a send or a receive fails: the connection is lost   *)
(* and what the buffer holds is never sent                                *)
connection_lost(writer) ==
    [writer EXCEPT !.lost = TRUE, !.paused = FALSE, !.buffer = <<>>,
                   !.dropped = writer.dropped \o writer.buffer]

(* writer.write(response): the transport sends or buffers the reply.  On  *)
(* a connection that the client has reset the send fails and the reply    *)
(* is never sent; the transport of a lost connection drops the reply.     *)
write(writer, response) ==
    IF writer.reset \/ writer.lost
    THEN [connection_lost(writer) EXCEPT !.dropped = Append(@, response)]
    ELSE [writer EXCEPT !.buffer = Append(writer.buffer, response)]

(* await writer.drain(): it returns at once unless the transport paused   *)
(* writing, or lost the connection in the write before: then the handler  *)
(* is suspended there, in the first case its reply in the buffer, until   *)
(* the client reads; in the second case in the sleep(0) that drain awaits *)
(* on a closing transport, until the event loop gives it the turn again   *)
drain(writer) ==
    IF writer.paused \/ writer.lost THEN writer
    ELSE [writer EXCEPT !.buffer = <<>>, !.sent = writer.sent \o writer.buffer]

(* The handler is suspended in writer.drain() *)
Suspended(writer) == writer.lost \/ (writer.paused /\ writer.buffer # <<>>)

close(writer) == [writer EXCEPT !.closed = TRUE]

process_quit(writer) == drain(write(writer, <<"+", "O", "K", "\r", "\n">>))

(* res[0].decode("utf-8").upper() *)
upper_name(name) == IF name.ok THEN Return(upper(name.val)) ELSE name

command_of(res) ==
    CASE res.t = "list" -> upper_name(decode(res.v[1]))
      [] res.t = "bytes" -> decode(PyInt(0))
      [] res.t = "str" -> decode(PyStr(<<res.v[1]>>))
      [] OTHER -> Raise("TypeError",
                        <<"'">> \o TypeName(res) \o <<"'", " ", "o", "b", "j", "e", "c", "t", " ", "i", "s", " ", "n", "o", "t", " ", "s", "u", "b", "s", "c", "r", "i", "p", "t", "a", "b", "l", "e">>)

(* The try block of handle_client for one chunk data that is not empty:   *)
(* the database and the writer it leaves, whether the loop goes on, and   *)
(* whether the last drain was the one of process_quit.                    *)
Step(db, writer, continue) ==
    [db |-> db, writer |-> writer, continue |-> continue, quit |-> FALSE]

(* writer.write(response); await writer.drain() *)
Reply(db, writer, response) == Step(db, drain(write(writer, response)), TRUE)

(* f"-ERR Internal error: {str(e)}\r\n".encode() *)
error_reply(msg) ==
    encode(<<"-", "E", "R", "R", " ", "I", "n", "t", "e", "r", "n", "a", "l", " ", "e", "r", "r", "o", "r", ":", " ">> \o msg \o CRLF)

(* except Exception as e: the error reply, the text of e encoded, then    *)
(* break                                                                  *)
Except(db, writer, msg) == Step(db, drain(write(writer, error_reply(msg))), FALSE)

(* The except branch when e is the ConnectionResetError of a lost         *)
(* connection.  When the write of the try block lost the connection, its  *)
(* drain raises 'Connection lost' after the sleep(0); when the connection *)
(* is lost while the handler is suspended in reader.read or in a drain of *)
(* the try block on a paused transport, that await raises the error of    *)
(* the socket.  The error reply is written to the lost transport, which   *)
(* drops it; the drain of the except branch raises at once, and the       *)
(* handler ends with that exception, before writer.close().               *)
except_lost(writer) ==
    write(connection_lost(writer),
          error_reply(IF writer.lost
                      THEN <<"C", "o", "n", "n", "e", "c", "t", "i", "o", "n", " ", "l", "o", "s", "t">>
                      ELSE <<"[", "E", "r", "r", "n", "o", " ", "1", "0", "4", "]", " ", "C", "o", "n", "n", "e", "c", "t", "i", "o", "n", " ", "r", "e", "s", "e", "t", " ", "b", "y", " ", "p", "e", "e", "r">>))

Answer(writer, outcome) ==
    IF outcome.ok THEN Reply(outcome.db, writer, outcome.response)
    ELSE Except(outcome.db, writer, outcome.msg)

EchoAnswer(db, writer, response) ==
    IF response.ok THEN Reply(db, writer, response.val)
    ELSE Except(db, writer, response.msg)

dispatch(db, writer, res, time, command) ==
    IF ~command.ok THEN Except(db, writer, command.msg)
    ELSE CASE command.val = <<"P", "I", "N", "G">> -> Reply(db, writer, process_ping)
           [] command.val = <<"E", "C", "H", "O">> -> EchoAnswer(db, writer, process_echo(res.v))
           [] command.val = <<"G", "E", "T">> -> Answer(writer, process_get(db, res.v, time))
           [] command.val = <<"S", "E", "T">> -> Answer(writer, process_set(db, res.v, time))
           [] command.val = <<"D", "E", "L">> -> Answer(writer, process_del(db, res.v, time))
           [] command.val = <<"Q", "U", "I", "T">> ->
                [Step(db, process_quit(writer), FALSE) EXCEPT !.quit = TRUE]
           [] OTHER -> Reply(db, writer, <<"-", "E", "R", "R", " ", "U", "n", "k", "n", "o", "w", "n", " ", "c", "o", "m", "m", "a", "n", "d", "\r", "\n">>)

(* The try block after res = parser.parse() *)
try_parsed(db, writer, res, time) ==
    IF ~res.ok THEN Except(db, writer, res.msg)
    ELSE IF falsy(res.val)
    THEN Reply(db, writer, <<"-", "E", "R", "R", " ", "I", "n", "v", "a", "l", "i", "d", " ", "c", "o", "m", "m", "a", "n", "d", " ", "f", "o", "r", "m", "a", "t", "\r", "\n">>)
    ELSE dispatch(db, writer, res.val, time, command_of(res.val))

try_chunk(db, writer, data, time) == try_parsed(db, writer, parse(data, 0), time)

(* After the try block: the loop goes on, or a break led to               *)
(* writer.close(); neither happens while the handler is suspended in the  *)
(* drain of the try block                                                 *)
after_try(step) ==
    IF step.continue \/ Suspended(step.writer) THEN step
    ELSE Step(step.db, close(step.writer), FALSE)

(* One iteration of the loop of handle_client on the chunk data that      *)
(* reader.read returned                                                   *)
handle_client(db, writer, data, time) ==
    IF Len(data) = 0
    THEN Step(db, close(writer), FALSE)
    ELSE after_try(try_chunk(db, writer, data, time))

----------------------------------------------------------------------------
(* The chunks a client sends: RESP requests built from words *)

Bulk(b) == <<"$">> \o NatStr(Len(b)) \o CRLF \o b \o CRLF

RECURSIVE Concat(_)
Concat(parts) == IF parts = <<>> THEN <<>> ELSE Head(parts) \o Concat(Tail(parts))

Array(elements) == <<"*">> \o NatStr(Len(elements)) \o CRLF \o Concat(elements)
Command(words) == Array([i \in 1..Len(words) |-> Bulk(words[i])])

PING == <<"P", "I", "N", "G">>
ECHO == <<"E", "C", "H", "O">>
GET == <<"G", "E", "T">>
SET == <<"S", "E", "T">>
DEL == <<"D", "E", "L">>
QUIT == <<"Q", "U", "I", "T">>
EX == <<"E", "X">>
PX == <<"P", "X">>

Keys == {<<"a">>, <<"b">>}

(* The requests of the store specification: SET, without and with a TTL  *)
(* option, GET and DEL                                                    *)
SetChunks == {Command(<<SET, <<"a">>, <<"v">> >>), Command(<<SET, <<"a">>, <<"w">> >>),
              Command(<<SET, <<"b">>, <<"v">> >>),
              Command(<<SET, <<"a">>, <<"v">>, PX, <<"5", "0", "0">> >>),
              Command(<<SET, <<"b">>, <<"w">>, <<"e", "x">>, <<"1">> >>),
              Command(<<SET, <<"a">>, <<"w">>, <<"X", "X">>, <<"1">> >>),
              Command(<<SET, <<"a">>, <<"w">>, <<"X", "X">>, <<"x">> >>),
              Command(<<SET, <<"a">>, <<"w">>, <<"xFF">>, <<"1">> >>)}
GetChunks == {Command(<<GET, k>>) : k \in Keys}
DelChunks == {Command(<<DEL, k>>) : k \in Keys}
               \union {Command(<<DEL, <<"a">>, <<"b">> >>), Command(<<DEL>>)}
StoreChunks == SetChunks \union GetChunks \union DelChunks

(* The requests of the dispatch specification: every command with right  *)
(* and wrong arities and argument shapes, and top-level values that are   *)
(* no command array                                                       *)
PlainChunks == {Command(<<PING>>), Command(<<PING, <<"v">> >>),
                Command(<<<<"p", "i", "n", "g">> >>),
                Command(<<ECHO>>), Command(<<ECHO, <<"v">> >>),
                Command(<<ECHO, <<"v">>, <<"w">> >>), Command(<<ECHO, <<>> >>),
                Array(<<Bulk(ECHO), <<":", "7", "\r", "\n">> >>),
                Command(<<<<"F", "O", "O">> >>)}
(* GET and SET with a wrong arity, a key that is no UTF-8 text, a TTL     *)
(* magnitude that is no number                                            *)
BadArgumentChunks == {Command(<<GET>>), Command(<<GET, <<"a">>, <<"b">> >>),
                      Command(<<GET, <<"xFF">> >>), Command(<<GET, <<"a", "xC3">> >>),
                      Command(<<SET, <<"a">> >>), Command(<<SET, <<"a">>, <<"v">>, EX>>),
                      Command(<<SET, <<"a">>, <<"v">>, EX, <<"x">> >>),
                      Command(<<SET, <<"a">>, <<"v">>, EX, <<"1">>, <<"w">> >>)}
QuitChunks == {Command(<<QUIT>>), Command(<<<<"q", "u", "i", "t">> >>),
               Command(<<QUIT, <<"a">> >>)}
ScalarChunks == {<<"*", "-", "1", "\r", "\n">>, <<"*", "0", "\r", "\n">>,
                 <<"$", "-", "1", "\r", "\n">>, <<"$", "0", "\r", "\n", "\r", "\n">>,
                 <<"+", "\r", "\n">>, <<":", "0", "\r", "\n">>,
                 <<"+", "O", "K", "\r", "\n">>, <<"-", "E", "R", "R", "\r", "\n">>,
                 <<":", "5", "\r", "\n">>, Bulk(<<"v">>)}
(* Requests whose last bulk string is followed by two bytes that are not  *)
(* the terminator                                                         *)
Unterminated(chunk) == SubSeq(chunk, 1, Len(chunk) - 2) \o <<"x", "x">>
(* Chunks that are no well-formed RESP element: a line without its       *)
(* terminator, a bulk string shorter than its length, a length or an      *)
(* integer that is no number, an unknown prefix, a bulk string without    *)
(* its terminator                                                         *)
MalformedChunks == {<<"+", "O", "K">>,
                    <<"*", "1", "\r", "\n", "$", "4", "\r", "\n", "P", "I", "N", "G">>,
                    <<"$", "5", "\r", "\n", "a", "b", "\r", "\n">>,
                    <<"$", "1", "\r", "\n", "v">>,
                    <<"*", "x", "\r", "\n">>, <<":", "\t", "xBF", "\r", "\n">>,
                    <<"G", "E", "T", " ", "a", "\r", "\n">>,
                    <<"xC3", "P", "I", "N", "G", "\r", "\n">>,
                    Unterminated(Command(<<PING>>)),
                    Unterminated(Command(<<SET, <<"b">>, <<"w">> >>))}
(* Arrays with null elements *)
NullBulk == <<"$", "-", "1", "\r", "\n">>
NullArray == <<"*", "-", "1", "\r", "\n">>
NullElementChunks == {Array(<<NullBulk>>), Array(<<NullArray>>),
                      Array(<<Bulk(ECHO), NullBulk>>)}
(* Chunks that hold two whole commands: <<first, rest>> *)
Pipelines == {<<Command(<<SET, <<"a">>, <<"v">> >>), Command(<<DEL, <<"a">> >>)>>,
              <<Command(<<PING>>), Command(<<SET, <<"a">>, <<"v">> >>)>>,
              <<Command(<<GET, <<"a">> >>), Command(<<GET, <<"a">> >>)>>}
PipelinedChunks == {pair[1] \o pair[2] : pair \in Pipelines}
Chunks == PlainChunks \union BadArgumentChunks \union QuitChunks \union ScalarChunks
            \union MalformedChunks \union NullElementChunks \union PipelinedChunks
            \union {Command(<<SET, <<"a">>, <<"v">> >>),
                    Command(<<SET, <<"a">>, <<"w">>, PX, <<"5", "0", "0">> >>),
                    Command(<<SET, <<"a">>, <<"w">>, EX, <<"0", ".", "5">> >>),
                    Command(<<GET, <<"a">> >>), Command(<<GET, <<"xC3", "xBF">> >>),
                    Command(<<DEL, <<"a">> >>)}

(* The requests after which a client of the model resets its connection  *)
(* before the handler writes the reply                                    *)
ResetChunks == {Command(<<PING>>), Command(<<QUIT>>), <<"+", "O", "K">>,
                Command(<<GET, <<"a">> >>),
                Command(<<SET, <<"b">>, <<"v">> >>), Command(<<SET, <<"b">>, <<"w">> >>),
                Command(<<SET, <<"a">>, <<"w">>, <<"X", "X">>, <<"1">> >>),
                Command(<<DEL, <<"a">>, <<"b">> >>)}

----------------------------------------------------------------------------
(* The server: one store, the clock, the sweep task and the connection    *)
(* handlers.                                                              *)

VARIABLES
    data,      \* RedisDatabase.data
    expires,   \* RedisDatabase.expires
    order,     \* the keys of RedisDatabase.expires in the order of the dict
    locked,    \* RedisDatabase.lock is held
    now,       \* the event loop's clock, in microseconds
    sweeper,   \* the remove_expired_keys task: "sleep", or "failed" once it raised
    pc,        \* per connection: "read" (awaiting reader.read), "closed" (ended after
               \* writer.close()), "lost" (ended by the exception of a lost connection),
               \* or suspended in writer.drain(): "drain" (of the loop), "drain_quit"
               \* (of process_quit), "drain_except" (of the except branch); the writer
               \* tells whether it waits there for the client to read (paused) or in
               \* the sleep(0) of a drain on a lost connection (lost)
    writer,    \* per connection: its StreamWriter; sent holds the replies to the last chunk
    req,       \* per connection: the last chunk read (history)
    calls,     \* per connection: the store calls made for the last chunk (history)
    pre,       \* per connection: the store and clock when the last chunk was read (history)
    written    \* per key: the last set or delete call on it (history)

vars == <<data, expires, order, locked, now, sweeper, pc, writer, req, calls, pre, written>>

MaxTicks == 3
TickMs == 500

Conns == DOMAIN pc

Snapshot == [data |-> data, expires |-> expires, now |-> now]

InitStore ==
    /\ data = <<>>
    /\ expires = <<>>
    /\ order = <<>>
    /\ locked = FALSE
    /\ now = 0
    /\ sweeper = "sleep"
    /\ written = <<>>

InitConns(conns) ==
    /\ pc = [c \in conns |-> "read"]
    /\ writer = [c \in conns |-> NewWriter]
    /\ req = [c \in conns |-> <<>>]
    /\ calls = [c \in conns |-> <<>>]
    /\ pre = [c \in conns |-> [data |-> <<>>, expires |-> <<>>, now |-> 0]]

Init == InitStore /\ InitConns({1})

(* The last set or delete call on each key, after the calls of log *)
RECURSIVE LastWrites(_, _)
LastWrites(log, w) ==
    IF log = <<>> THEN w
    ELSE LastWrites(Tail(log),
                    IF Head(log).op \in {"set", "delete"}
                    THEN With(w, Head(log).key, Head(log))
                    ELSE w)

(* Where the handler is after the iteration step *)
Position(step) ==
    IF Suspended(step.writer)
    THEN IF step.continue THEN "drain"
         ELSE IF step.quit THEN "drain_quit" ELSE "drain_except"
    ELSE IF step.continue THEN "read" ELSE "closed"

(* The state after connection c's handler ran the iteration step on chunk *)
Handled(c, chunk, step) ==
    /\ data' = step.db.data
    /\ expires' = step.db.expires
    /\ order' = step.db.order
    /\ locked' = step.db.locked
    /\ writer' = [writer EXCEPT ![c] = step.writer]
    /\ pc' = [pc EXCEPT ![c] = Position(step)]
    /\ calls' = [calls EXCEPT ![c] = step.db.calls]
    /\ written' = LastWrites(step.db.calls, written)
    /\ req' = [req EXCEPT ![c] = chunk]
    /\ pre' = [pre EXCEPT ![c] = Snapshot]
    /\ UNCHANGED <<now, sweeper>>

Database ==
    [data |-> data, expires |-> expires, order |-> order, locked |-> locked, calls |-> <<>>]

(* Whether the write of the reply to chunk brings the transport over its *)
(* high-water mark: it can when the client does not read its replies     *)
Pauses(chunk) == IF chunk = <<>> THEN {FALSE} ELSE BOOLEAN

(* The writer of connection c as an iteration finds it *)
WriterAt(c, paused, reset) ==
    [writer[c] EXCEPT !.sent = <<>>, !.paused = paused /\ ~reset, !.reset = reset]

(* Connection c's handler gets chunk from reader.read and runs one        *)
(* iteration of its loop, to the next read, to the end of the handler or  *)
(* to a drain that suspends it.  No "async with self.lock" suspends: the  *)
(* lock is free whenever a handler runs.  The client may have reset the   *)
(* connection after it sent a chunk of ResetChunks.                       *)
Receive(c, chunk) ==
    /\ pc[c] = "read"
    /\ ~locked
    /\ \E paused \in Pauses(chunk) : \E reset \in {r \in BOOLEAN : r => chunk \in ResetChunks} :
          Handled(c, chunk, handle_client(Database, WriterAt(c, paused, reset), chunk, now))

(* The client of connection c reads its replies: the transport resumes    *)
(* writing and the handler suspended in drain goes on, to the next read   *)
(* or, before a break, to writer.close()                                  *)
Drained(c) ==
    /\ pc[c] \in {"drain", "drain_quit", "drain_except"}
    /\ ~writer[c].lost
    /\ writer' = [writer EXCEPT ![c] =
                     after_try(Step(Database, drain([writer[c] EXCEPT !.paused = FALSE]),
                                    pc[c] = "drain")).writer]
    /\ pc' = [pc EXCEPT ![c] = IF pc[c] = "drain" THEN "read" ELSE "closed"]
    /\ UNCHANGED <<data, expires, order, locked, now, sweeper, req, calls, pre, written>>

(* The client closed its side, having read every reply: reader.read       *)
(* returns b"" *)
Eof(c) == Receive(c, <<>>)

(* The handler of c ends on a lost connection.  Either the client reset   *)
(* the connection while the handler is suspended in reader.read or, the   *)
(* transport paused, in a drain: that await raises ConnectionResetError.  *)
(* Or the write of this iteration lost the connection and the handler     *)
(* resumes from the sleep(0) of its drain, which raises                   *)
(* ConnectionResetError('Connection lost').  reader.read and the drains   *)
(* of the try block lead to the except branch, the drain of the except    *)
(* branch ends the handler at once.  The handler ends without             *)
(* writer.close(); the store and the lock are as they were.  A read that  *)
(* raises is an iteration of its own, without a chunk.                    *)
Lost(c) ==
    /\ pc[c] \in {"read", "drain", "drain_quit", "drain_except"}
    /\ writer' = [writer EXCEPT ![c] =
                     IF pc[c] = "drain_except" THEN connection_lost(writer[c])
                     ELSE IF pc[c] = "read" THEN except_lost(WriterAt(c, FALSE, TRUE))
                     ELSE except_lost(writer[c])]
    /\ pc' = [pc EXCEPT ![c] = "lost"]
    /\ req' = [req EXCEPT ![c] = IF pc[c] = "read" THEN <<>> ELSE req[c]]
    /\ calls' = [calls EXCEPT ![c] = IF pc[c] = "read" THEN <<>> ELSE calls[c]]
    /\ pre' = [pre EXCEPT ![c] = IF pc[c] = "read" THEN Snapshot ELSE pre[c]]
    /\ UNCHANGED <<data, expires, order, locked, now, sweeper, written>>

Swept(swept) ==
    /\ data' = swept.db.data
    /\ expires' = swept.db.expires
    /\ order' = swept.db.order
    /\ locked' = swept.db.locked
    /\ sweeper' = IF swept.ok THEN "sleep" ELSE "failed"
    /\ UNCHANGED <<now, pc, writer, req, calls, pre, written>>

(* The sweep task wakes up and runs one iteration *)
Sweep ==
    /\ sweeper = "sleep"
    /\ ~locked
    /\ Swept(remove_expired_keys(Database, now))

(* Time passes *)
Tick ==
    /\ now < MaxTicks * TickMs * UsPerMs
    /\ now' = now + TickMs * UsPerMs
    /\ UNCHANGED <<data, expires, order, locked, sweeper, pc, writer, req, calls, pre, written>>

(* The dispatch specification: one client sending any request of Chunks *)
Next ==
    \/ \E c \in Conns : \E chunk \in Chunks : Receive(c, chunk)
    \/ \E c \in Conns : Eof(c)
    \/ \E c \in Conns : Drained(c)
    \/ \E c \in Conns : Lost(c)
    \/ Sweep
    \/ Tick

Spec == Init /\ [][Next]_vars

(* The store specification: one client sending SET, GET and DEL *)
NextStore ==
    \/ \E c \in Conns : \E chunk \in StoreChunks : Receive(c, chunk)
    \/ \E c \in Conns : Eof(c)
    \/ \E c \in Conns : Drained(c)
    \/ \E c \in Conns : Lost(c)
    \/ Sweep
    \/ Tick

SpecStore == Init /\ [][NextStore]_vars

----------------------------------------------------------------------------
(* The handlers as tasks of the event loop.  A task runs until it is      *)
(* suspended: a handler in reader.read or in writer.drain, the sweep in   *)
(* asyncio.sleep.  The other positions of a handler are "acquire" (at an  *)
(* "async with self.lock" of a store method), "wait" (suspended there,    *)
(* the lock being held) and "locked" (inside the block).                  *)

Idle ==
    \A c \in Conns :
        pc[c] \in {"read", "closed", "lost", "wait", "drain", "drain_quit", "drain_except"}

(* await self.lock.acquire() suspends the task when the lock is held *)
acquire_yields(db) == TRUE

acquire_suspends(db) == db.locked

(* Whether the handler reaches a store method on chunk *)
MakesStoreCall(chunk) ==
    Len(handle_client(Database, NewWriter, chunk, now).db.calls) > 0

TaskChunks == {Command(<<SET, <<"a">>, <<"v">>, PX, <<"5", "0", "0">> >>),
               Command(<<SET, <<"b">>, <<"w">> >>),
               Command(<<DEL, <<"a">>, <<"b">> >>),
               Command(<<DEL, <<"a">>, <<"xFF">> >>),
               Command(<<QUIT>>),
               <<"+", "O", "K">>}

(* Connection c's handler gets chunk from reader.read and runs up to its  *)
(* first store call, or to the end of the iteration when it makes none    *)
TaskRead(c, chunk) ==
    /\ pc[c] = "read"
    /\ Idle
    /\ \E reset \in {r \in BOOLEAN : r => chunk \in ResetChunks} :
         IF MakesStoreCall(chunk)
         THEN /\ pc' = [pc EXCEPT ![c] = "acquire"]
              /\ req' = [req EXCEPT ![c] = chunk]
              /\ pre' = [pre EXCEPT ![c] = Snapshot]
              /\ calls' = [calls EXCEPT ![c] = <<>>]
              /\ writer' = [writer EXCEPT ![c] = WriterAt(c, FALSE, reset)]
              /\ UNCHANGED <<data, expires, order, locked, now, sweeper, written>>
         ELSE \E paused \in Pauses(chunk) :
                Handled(c, chunk,
                        handle_client(Database, WriterAt(c, paused, reset), chunk, now))

(* async with self.lock, on entry: the handler reaches it, or it was      *)
(* suspended there and the event loop gives it the turn                   *)
Acquire(c) ==
    /\ pc[c] \in {"acquire", "wait"}
    /\ pc[c] = "wait" => Idle
    /\ IF (pc[c] = "acquire" /\ acquire_suspends(Database)) \/ locked
       THEN /\ pc' = [pc EXCEPT ![c] = "wait"]
            /\ UNCHANGED locked
       ELSE /\ pc' = [pc EXCEPT ![c] = "locked"]
            /\ locked' = lock_acquire(Database).locked
    /\ UNCHANGED <<data, expires, order, now, sweeper, writer, req, calls, pre, written>>

(* The store after the calls logged in db, made for connection c *)
Stored(c, db) ==
    /\ data' = db.data
    /\ expires' = db.expires
    /\ order' = db.order
    /\ locked' = db.locked
    /\ calls' = [calls EXCEPT ![c] = calls[c] \o db.calls]
    /\ written' = LastWrites(db.calls, written)

(* The block of a delete of process_del that is not its last one: the    *)
(* loop goes on to the next key                                           *)
Deleted(c, deleted) ==
    /\ Stored(c, deleted.db)
    /\ pc' = [pc EXCEPT ![c] = "acquire"]
    /\ UNCHANGED <<now, sweeper, writer, req, pre>>

(* The block of the last store call of the iteration, and the rest of    *)
(* the iteration                                                          *)
Finished(c, step) ==
    /\ Stored(c, step.db)
    /\ writer' = [writer EXCEPT ![c] = step.writer]
    /\ pc' = [pc EXCEPT ![c] = Position(step)]
    /\ UNCHANGED <<now, sweeper, req, pre>>

(* The keys that process_del counted among the deletes made *)
Counted(log) == Cardinality({i \in 1..Len(log) : ~falsy(log[i].ret)})

(* The rest of the loop of process_del, from the key of the delete that  *)
(* connection c's handler is at                                           *)
del_rest(c, message) ==
    del_keys(Database, message, Len(calls[c]) + 2, Counted(calls[c]), now)

(* The block of the store call connection c's handler is at, and what     *)
(* follows it up to the next await that can suspend; w is the writer with *)
(* the state of its transport                                             *)
InBlock(c, message, w) ==
    IF upper(message[1].v) = DEL
    THEN IF Len(del_rest(c, message).db.calls) > 1
         THEN Deleted(c, delete(Database, decode(message[Len(calls[c]) + 2]).val, now))
         ELSE Finished(c, after_try(Answer(w, del_rest(c, message))))
    ELSE Finished(c, handle_client(Database, w, req[c], now))

(* Connection c's handler runs the block of its store call, leaves it,    *)
(* and goes on to its next store call, to the end of the iteration or to  *)
(* a drain that suspends it                                               *)
Critical(c) ==
    /\ pc[c] = "locked"
    /\ \E paused \in BOOLEAN :
          InBlock(c, parse(req[c], 0).val.v,
                  [writer[c] EXCEPT !.paused = paused /\ ~writer[c].reset])

(* The client reads and the event loop gives the handler the turn *)
TaskDrained(c) == Idle /\ Drained(c)

(* The event loop gives the turn to a handler whose connection is lost:  *)
(* to one that a failed receive or send woke up from reader.read or from  *)
(* a drain on a paused transport, or to one that yielded in the sleep(0)  *)
(* of the drain after its own write failed                                *)
TaskLost(c) == Idle /\ Lost(c)

(* The sweep task runs when the event loop gives it the turn *)
TaskSweep == Idle /\ Sweep

MaxTaskTicks == 1

(* Time passes while the tasks are suspended: a run between two awaits   *)
(* takes no time on the scale of TickMs                                   *)
TaskTick == Idle /\ now < MaxTaskTicks * TickMs * UsPerMs /\ Tick

InitTasks == InitStore /\ InitConns({1, 2})

NextTasks ==
    \/ \E c \in Conns : \E chunk \in TaskChunks : TaskRead(c, chunk)
    \/ \E c \in Conns : TaskRead(c, <<>>)
    \/ \E c \in Conns : Acquire(c)
    \/ \E c \in Conns : Critical(c)
    \/ \E c \in Conns : TaskDrained(c)
    \/ \E c \in Conns : TaskLost(c)
    \/ TaskSweep
    \/ TaskTick

SpecTasks == InitTasks /\ [][NextTasks]_vars

----------------------------------------------------------------------------
(* The server as main starts it: the store and the connection handlers.   *)
(* main creates no task for remove_expired_keys, so no sweep iteration    *)
(* ever runs; the specifications above run the sweep as a program that    *)
(* schedules it would.                                                    *)

MainChunks == {Command(<<SET, <<"a">>, <<"v">>, PX, <<"5", "0", "0">> >>),
               Command(<<SET, <<"a">>, <<"w">>, PX, <<"0", ".", "5">> >>),
               Command(<<SET, <<"b">>, <<"w">>, <<"e", "x">>, <<"1">> >>),
               Command(<<SET, <<"b">>, <<"v">> >>),
               Command(<<GET, <<"b">> >>),
               Command(<<DEL, <<"b">> >>)}

InitMain ==
    /\ data = <<>>
    /\ expires = <<>>
    /\ order = <<>>
    /\ locked = FALSE
    /\ now = 0
    /\ sweeper = "unstarted"
    /\ written = <<>>
    /\ InitConns({1})

NextMain ==
    \/ \E c \in Conns : \E chunk \in MainChunks : Receive(c, chunk)
    \/ \E c \in Conns : Eof(c)
    \/ \E c \in Conns : Drained(c)
    \/ \E c \in Conns : Lost(c)
    \/ Tick

SpecMain == InitMain /\ [][NextMain]_vars

(* Time passes; a client is free never to send another chunk *)
LiveMain == SpecMain /\ WF_vars(Tick)

----------------------------------------------------------------------------
(* The claims.  A key is present in a store s at time t when it is stored *)
(* and not expired.                                                       *)

Present(s, key, t) ==
    /\ key \in DOMAIN s.data
    /\ (key \notin DOMAIN s.expires \/ t <= s.expires[key])

Range(seq) == {seq[i] : i \in 1..Len(seq)}

(* The replies that the handler of connection c wrote in its last         *)
(* iteration, one for each writer.write: the ones drained, the one a      *)
(* paused transport holds while the handler waits in drain, and the ones  *)
(* that the transport of a lost connection dropped.                       *)
Replies(c) == writer[c].sent \o writer[c].buffer \o writer[c].dropped
RepliesAfter(c) == writer'[c].sent \o writer'[c].buffer \o writer'[c].dropped

(* The loop of connection c's handler goes on: it is at its next read, or *)
(* in the drain that precedes it; or the client has dropped a connection  *)
(* that the handler had not closed                                        *)
Reading(c) == pc[c] \in {"read", "drain", "lost"} /\ ~writer[c].closed

(* The argument lists of the DEL requests *)
KeyLists == {<<k>> : k \in Keys} \union {<<k, l>> : k \in Keys, l \in Keys}

DelRequest(keys) == Command(<<DEL>> \o keys)

IntegerReply(n) == <<":">> \o IntStr(n) \o CRLF
OkReply == <<"+", "O", "K", "\r", "\n">>
NullReply == <<"$", "-", "1", "\r", "\n">>

(* What get and exists would return in the current state *)
GetNow(key) == get(Database, key, now).ret
ExistsNow(key) == exists(Database, key, now).ret

(* C1: a DEL request with N >= 1 keys, M of them present when it runs, is *)
(* answered :M, and afterwards none of its keys is present.               *)
C1_DelRepliesNumberOfPresentKeys ==
    \A c \in Conns : \A keys \in KeyLists :
        req[c] = DelRequest(keys) =>
            /\ Replies(c) =
                 <<IntegerReply(Cardinality({k \in Range(keys) : Present(pre[c], k, pre[c].now)}))>>
            /\ \A k \in Range(keys) : GetNow(k) = PyNone

(* Whether the key of the i-th store call of connection c's last request  *)
(* was present when that call was made: the calls of a DEL are deletes,   *)
(* so the key was present before the request and not deleted by it yet.   *)
PresentAtCall(c, i) ==
    /\ Present(pre[c], calls[c][i].key, pre[c].now)
    /\ \A j \in 1..(i - 1) : calls[c][j].key # calls[c][i].key

(* C2: delete(key) returns true when key is present, and false otherwise  *)
C2_DeleteReturnsWhetherPresent ==
    \A c \in Conns : \A i \in 1..Len(calls[c]) :
        calls[c][i].op = "delete" => (~falsy(calls[c][i].ret) <=> PresentAtCall(c, i))

(* C3: a DEL request removes its keys from data and from expires, also    *)
(* the ones expired and still stored, so that get and exists report them  *)
(* absent, and leaves every other key as it was; when none of its keys is *)
(* stored, it leaves the store unchanged.                                 *)
DeleteEffect(keys) ==
    /\ \A k \in Range(keys) :
         /\ k \notin DOMAIN data' /\ k \notin DOMAIN expires'
         /\ get([Database EXCEPT !.data = data', !.expires = expires'], k, now).ret = PyNone
         /\ exists([Database EXCEPT !.data = data', !.expires = expires'], k, now).ret
              = PyBool(FALSE)
    /\ DOMAIN data' = (DOMAIN data) \ Range(keys)
    /\ DOMAIN expires' = (DOMAIN expires) \ Range(keys)
    /\ \A k \in DOMAIN data' : data'[k] = data[k]
    /\ \A k \in DOMAIN expires' : expires'[k] = expires[k]
    /\ (Range(keys) \cap DOMAIN data = {}) => (data' = data /\ expires' = expires)

C3_DeleteRemovesOnlyItsKey ==
    [][\A c \in Conns : \A keys \in KeyLists :
          (req'[c] = DelRequest(keys) /\ Receive(c, DelRequest(keys))) => DeleteEffect(keys)]_vars

C3_Witness ==
    \E c \in Conns :
        /\ req[c] = DelRequest(<<<<"a">>>>)
        /\ <<"a">> \in DOMAIN pre[c].expires
        /\ pre[c].now > pre[c].expires[<<"a">>]
        /\ <<"a">> \in DOMAIN pre[c].data
        /\ <<"a">> \notin DOMAIN data
        /\ <<"b">> \in DOMAIN data

(* C4: after set(key, value, ttl) with ttl > 0 at time t, and until the   *)
(* next set or delete of key, get(key) returns value at time t, and at    *)
(* every time after t + ttl get(key) returns None and exists(key) False:  *)
(* for the get and exists that would run now, and for the get calls made. *)
TtlWrite(w) == w.op = "set" /\ w.expire.t = "float" /\ w.expire.v > 0

C4_ExpiringSetReadsUntilTtl ==
    \A key \in DOMAIN written :
        TtlWrite(written[key]) =>
            /\ now = written[key].time => GetNow(key) = written[key].value
            /\ now > written[key].time + written[key].expire.v =>
                 (GetNow(key) = PyNone /\ ExistsNow(key) = PyBool(FALSE))
            /\ \A c \in Conns : \A i \in 1..Len(calls[c]) :
                 (calls[c][i].op = "get" /\ calls[c][i].key = key) =>
                    /\ calls[c][i].time = written[key].time =>
                         calls[c][i].ret = written[key].value
                    /\ calls[c][i].time > written[key].time + written[key].expire.v =>
                         calls[c][i].ret = PyNone

(* A GET found its key expired and still stored, and answered null *)
C4_Witness ==
    \E c \in Conns : \E key \in DOMAIN written :
        /\ TtlWrite(written[key])
        /\ Len(calls[c]) = 1 /\ calls[c][1].op = "get" /\ calls[c][1].key = key
        /\ calls[c][1].time > written[key].time + written[key].expire.v
        /\ key \in DOMAIN pre[c].data
        /\ calls[c][1].ret = PyNone
        /\ writer[c].sent = <<NullReply>>

(* C5: after set(key, value) without a ttl, and until the next set or     *)
(* delete of key, every get(key) returns value, whatever time passed and  *)
(* whatever expiry the key had before.                                    *)
PlainWrite(w) == w.op = "set" /\ w.expire.t = "none"

C5_PlainSetNeverExpires ==
    \A key \in DOMAIN written :
        PlainWrite(written[key]) =>
            /\ GetNow(key) = written[key].value
            /\ ExistsNow(key) = PyBool(TRUE)
            /\ \A c \in Conns : \A i \in 1..Len(calls[c]) :
                 (calls[c][i].op = "get" /\ calls[c][i].key = key) =>
                    calls[c][i].ret = written[key].value

(* A SET without a ttl overwrote a key with an expiry, that expiry has    *)
(* passed, and the key still reads                                        *)
C5_Witness ==
    \E c \in Conns :
        /\ req[c] = Command(<<SET, <<"a">>, <<"w">> >>)
        /\ <<"a">> \in DOMAIN pre[c].expires
        /\ now > pre[c].expires[<<"a">>]
        /\ GetNow(<<"a">>) = PyBytes(<<"w">>)

(* C9: a 5-element SET whose 4th argument is neither EX nor PX.            *)
Values == {<<"v">>, <<"w">>}
OtherUnits == {<<"X", "X">>, <<"xFF">>}
Magnitudes == {<<"1">>, <<"x">>}

(* C9 as stated: it replies OK and the key has no expiry, GET returns the *)
(* value at every later time                                              *)
C9_OtherUnitSetsNoExpiry ==
    \A c \in Conns : \A k \in Keys : \A v \in Values :
    \A unit \in OtherUnits : \A n \in Magnitudes :
        req[c] = Command(<<SET, k, v, unit, n>>) =>
            /\ Replies(c) = <<OkReply>>
            /\ k \notin DOMAIN expires
            /\ GetNow(k) = PyBytes(v)

(* The reply of the except branch *)
InternalError == <<"-", "E", "R", "R", " ", "I", "n", "t", "e", "r", "n", "a", "l", " ", "e", "r", "r", "o", "r", ":", " ">>

IsInternalError(reply) ==
    Len(reply) > Len(InternalError) /\ SubSeq(reply, 1, Len(InternalError)) = InternalError

(* The SET is answered OK and the store holds value under key with the    *)
(* expiry seconds after the SET; the OK is the only reply unless the      *)
(* connection was lost when it was written                                *)
SetWithTtl(c, key, value, seconds) ==
    /\ Head(Replies(c)) = OkReply
    /\ Len(Replies(c)) > 1 => pc[c] = "lost"
    /\ written[key].expire = PyFloat(seconds)
    /\ calls[c] = <<written[key]>>
    /\ now < pre[c].now + seconds => GetNow(key) = PyBytes(value)
    /\ now > pre[c].now + seconds => GetNow(key) = PyNone

(* The chunk raised in the try block: no store call, the internal error   *)
(* is the only reply, and the handler ends, after writer.close() unless   *)
(* it waits in the drain of the except branch or the connection is lost   *)
SetRaised(c) ==
    /\ Len(Replies(c)) = 1
    /\ IsInternalError(Head(Replies(c)))
    /\ calls[c] = <<>>
    /\ pc[c] \in {"closed", "drain_except", "lost"}
    /\ pc[c] = "closed" <=> writer[c].closed

(* C9 as amended: when the 5th argument is a number and the 4th is UTF-8  *)
(* text, the SET replies OK and the 5th argument is the TTL in seconds,   *)
(* as with EX: GET returns the value before that many seconds have        *)
(* passed, and null after; otherwise float or decode raises, the SET      *)
(* stores nothing, is answered the internal error and ends the connection *)
C9_OtherUnitSetsSeconds ==
    \A c \in Conns : \A k \in Keys : \A v \in Values :
    \A unit \in OtherUnits : \A n \in Magnitudes :
        req[c] = Command(<<SET, k, v, unit, n>>) =>
            IF IsFloatLiteral(n) /\ utf8_decode(unit).ok
            THEN SetWithTtl(c, k, v, FloatVal(n))
            ELSE SetRaised(c)

C9_Witness ==
    \E c \in Conns :
        /\ req[c] = Command(<<SET, <<"a">>, <<"w">>, <<"X", "X">>, <<"1">> >>)
        /\ now > pre[c].now + UsPerSec
        /\ <<"a">> \in DOMAIN data
        /\ GetNow(<<"a">>) = PyNone

(* C6: a chunk whose top-level value is no command array (a null array,  *)
(* an empty array, a scalar) is answered 'Invalid command format', makes  *)
(* no store call, and leaves the connection reading.                      *)
InvalidFormatReply == <<"-", "E", "R", "R", " ", "I", "n", "v", "a", "l", "i", "d", " ", "c", "o", "m", "m", "a", "n", "d", " ", "f", "o", "r", "m", "a", "t", "\r", "\n">>

C6_NonCommandValueIsInvalidFormat ==
    \A c \in Conns :
        req[c] \in ScalarChunks =>
            /\ Replies(c) = <<InvalidFormatReply>>
            /\ calls[c] = <<>>
            /\ Reading(c)

(* C7: an ECHO array of 2 elements is answered the bulk string of its     *)
(* argument, and one of any other length the arity error.                 *)
EchoArityReply == <<"-", "E", "R", "R", " ", "w", "r", "o", "n", "g", " ", "n", "u", "m", "b", "e", "r", " ", "o", "f", " ", "a", "r", "g", "u", "m", "e", "n", "t", "s", " ", "f", "o", "r", " ", "'", "e", "c", "h", "o", "'", " ", "c", "o", "m", "m", "a", "n", "d", "\r", "\n">>
EchoArguments == {<<>>, <<<<"v">>>>, <<<<>>>>, <<<<"v">>, <<"w">>>>}

C7_EchoArityIsTwo ==
    \A c \in Conns : \A arguments \in EchoArguments :
        req[c] = Command(<<ECHO>> \o arguments) =>
            Replies(c) = IF Len(arguments) = 1
                         THEN <<Bulk(arguments[1])>>
                         ELSE <<EchoArityReply>>

(* C8: a command array (an array of bulk strings of UTF-8 text) named     *)
(* PING, ECHO, GET, SET or DEL, whatever its arguments, gets one reply    *)
(* and the connection stays open; when it is invalid (the reply is an     *)
(* error) it made no store call.                                          *)
IsNamedCommand(res) ==
    /\ res.ok
    /\ res.val.t = "list"
    /\ Len(res.val.v) > 0
    /\ \A i \in 1..Len(res.val.v) : res.val.v[i].t = "bytes" /\ utf8_decode(res.val.v[i].v).ok
    /\ upper(res.val.v[1].v) \in {PING, ECHO, GET, SET, DEL}

NamedCommandChunks == {d \in Chunks \union StoreChunks : IsNamedCommand(parse(d, 0))}

C8_CommandErrorsKeepConnection ==
    \A c \in Conns :
        req[c] \in NamedCommandChunks =>
            /\ Len(Replies(c)) = 1
            /\ Reading(c)
            /\ Replies(c)[1][1] = "-" => calls[c] = <<>>

(* C10: QUIT, with any arguments and in any letter case, is answered      *)
(* exactly one reply, +OK, that is drained before the writer is closed:   *)
(* the handler has closed the writer with the reply sent, or it waits in  *)
(* the drain of process_quit with the writer open; it reads no other      *)
(* chunk and makes no store call.                                         *)
C10_QuitRepliesOkThenCloses ==
    \A c \in Conns :
        req[c] \in QuitChunks =>
            /\ Replies(c) = <<OkReply>>
            /\ pc[c] \in {"closed", "drain_quit"}
            /\ pc[c] = "closed" <=> writer[c].closed
            /\ writer[c].closed => writer[c].sent = <<OkReply>>
            /\ calls[c] = <<>>


(* C11: a chunk that is no well-formed RESP element is answered exactly   *)
(* one error reply, the connection is closed (once the reply is drained), *)
(* and the chunk leaves the store as it was.                              *)
MalformedEffect(c) ==
    /\ Len(RepliesAfter(c)) = 1
    /\ RepliesAfter(c)[1][1] = "-"
    /\ pc'[c] \in {"closed", "drain_except"}
    /\ pc'[c] = "closed" => writer'[c].closed
    /\ data' = data
    /\ expires' = expires

C11_MalformedChunkIsFatal ==
    [][\A c \in Conns : \A chunk \in MalformedChunks :
          (req'[c] = chunk /\ Receive(c, chunk)) => MalformedEffect(c)]_vars



(* C12: the step that ends a connection's handler (after EOF, QUIT or an  *)
(* internal error, the loss of the connection among them) changes the     *)
(* store by no more than the store calls of its last chunk, so it keeps   *)
(* every entry written through that connection, it leaves the lock free,  *)
(* and it leaves every other connection as it was; and whenever a handler *)
(* has ended, each other handler goes on: it never waits for the lock,    *)
(* and it is answered one reply to each chunk when its iteration ends.    *)
(* A handler has ended when it returned after writer.close() or when the  *)
(* exception of a lost connection ended it.                               *)
Ended == {"closed", "lost"}

Ends(c) == pc[c] \notin Ended /\ pc'[c] \in Ended

(* Connection d is between two iterations, or closed, after a chunk that *)
(* was not the end of the stream                                          *)
Answered(d) == pc'[d] \in {"read", "closed"} /\ req'[d] # <<>>

TerminationIsLocal ==
    \A c \in Conns :
        Ends(c) =>
            /\ calls'[c] = <<>> => (data' = data /\ expires' = expires)
            /\ ~locked'
            /\ \A d \in Conns \ {c} :
                 pc'[d] = pc[d] /\ writer'[d] = writer[d] /\ req'[d] = req[d]

OthersAreAnswered ==
    \A c \in Conns : \A d \in Conns \ {c} :
        (pc[c] \in Ended /\ Answered(d)) => Len(writer'[d].sent) = 1

(* No handler is left waiting for the lock after another one has ended:  *)
(* the lock is held only by a handler that is inside a block              *)
OthersGoOn ==
    \A c \in Conns : \A d \in Conns \ {c} :
        pc[c] \in Ended => (pc[d] # "wait" /\ (locked => pc[d] = "locked"))

TerminationStep == OthersGoOn /\ TerminationIsLocal /\ OthersAreAnswered

C12_TerminationAffectsOnlyItsHandler == [][TerminationStep]_vars

(* A handler ended on an internal error after it had written b, the other *)
(* handler has since been answered OK to a SET of a, and both entries     *)
(* are stored                                                             *)
C12_Witness ==
    \E c \in Conns : \E d \in Conns \ {c} :
        /\ pc[c] = "closed"
        /\ req[c] = <<"+", "O", "K">>
        /\ <<"b">> \in DOMAIN data
        /\ <<"b">> \in DOMAIN pre[c].data
        /\ pc[d] = "read"
        /\ req[d] = Command(<<SET, <<"a">>, <<"v">>, PX, <<"5", "0", "0">> >>)
        /\ <<"b">> \in DOMAIN pre[d].data
        /\ writer[d].sent = <<OkReply>>
        /\ ~locked


(* C13: at most one store operation is inside its block at a time, the    *)
(* lock being held exactly then, and in every state, so whenever an       *)
(* operation enters its block, each key is stored as its last set or      *)
(* delete left it: the value with the expiry of that set, or nothing      *)
(* after a delete or a removal on expiry.                                 *)
InsideBlock == {c \in Conns : pc[c] = "locked"}

Absent(key) == key \notin DOMAIN data /\ key \notin DOMAIN expires

Whole(key) ==
    IF key \notin DOMAIN written THEN Absent(key)
    ELSE IF written[key].op = "delete" THEN Absent(key)
    ELSE IF PlainWrite(written[key])
    THEN /\ key \in DOMAIN data /\ data[key] = written[key].value
         /\ key \notin DOMAIN expires
    ELSE \/ /\ key \in DOMAIN data /\ data[key] = written[key].value
            /\ key \in DOMAIN expires
            /\ expires[key] = written[key].time + written[key].expire.v
         \/ /\ Absent(key)
            /\ now >= written[key].time + written[key].expire.v

C13_StoreOperationsAreExclusive ==
    /\ Cardinality(InsideBlock) <= 1
    /\ locked <=> InsideBlock # {}
    /\ \A key \in Keys : Whole(key)

(* A handler is inside the block of a SET that replaces an expiry, while  *)
(* the other handler, which has written b, is reading                     *)
C13_Witness ==
    \E c \in Conns : \E d \in Conns \ {c} :
        /\ pc[c] = "locked"
        /\ req[c] = Command(<<SET, <<"a">>, <<"v">>, PX, <<"5", "0", "0">> >>)
        /\ <<"a">> \in DOMAIN expires
        /\ expires[<<"a">>] = now
        /\ pc[d] = "read"
        /\ req[d] = Command(<<SET, <<"b">>, <<"w">> >>)
        /\ <<"b">> \in DOMAIN data


(* C14: a DEL of the keys a and b that has removed a and not yet b.       *)
MidDel(c) ==
    /\ req[c] = DelRequest(<<<<"a">>, <<"b">>>>)
    /\ pc[c] \in {"acquire", "wait", "locked"}
    /\ Len(calls[c]) = 1

(* C14 as stated: between the two deletes of a DEL a b, a command of      *)
(* another connection, such as a SET of b, can execute                    *)
C14_DelIsNotIsolated ==
    \A c \in Conns : \A d \in Conns \ {c} :
        (MidDel(c) /\ pc[d] = "read") =>
            ENABLED TaskRead(d, Command(<<SET, <<"b">>, <<"w">> >>))

(* C14 as amended: between the two deletes of a DEL a b the handler is    *)
(* not suspended, so every other handler stays where it is suspended (in  *)
(* reader.read or in a drain, that of a lost connection included) or      *)
(* ended: none can receive a chunk, make a store call, resume from a      *)
(* drain or end on a lost connection, and the sweep cannot run before b   *)
(* is removed                                                             *)
C14_DelRunsUninterrupted ==
    \A c \in Conns :
        MidDel(c) =>
            /\ pc[c] # "wait"
            /\ \A d \in Conns \ {c} :
                 /\ pc[d] \in {"read", "closed", "lost", "drain", "drain_quit", "drain_except"}
                 /\ \A chunk \in TaskChunks : ~ENABLED TaskRead(d, chunk)
                 /\ ~ENABLED Acquire(d)
                 /\ ~ENABLED Critical(d)
                 /\ ~ENABLED TaskDrained(d)
                 /\ ~ENABLED TaskLost(d)
            /\ ~ENABLED TaskSweep

(* DEL a b has removed a and b is still stored, while the other handler,  *)
(* which wrote b, is reading                                              *)
C14_Witness ==
    \E c \in Conns : \E d \in Conns \ {c} :
        /\ MidDel(c)
        /\ <<"a">> \in DOMAIN pre[c].data
        /\ <<"a">> \notin DOMAIN data
        /\ <<"b">> \in DOMAIN data
        /\ pc[d] = "read"
        /\ req[d] = Command(<<SET, <<"b">>, <<"w">> >>)


(* C15: a sweep iteration removes only the entries that get treats as     *)
(* expired at that instant, so it changes the result of no get and of no  *)
(* exists.                                                                *)
SweepKeepsReads ==
    \A key \in Keys :
        /\ (key \in DOMAIN data /\ key \notin DOMAIN data') =>
              (key \in DOMAIN expires /\ now > expires[key])
        /\ get([Database EXCEPT !.data = data', !.expires = expires'], key, now).ret
             = GetNow(key)
        /\ exists([Database EXCEPT !.data = data', !.expires = expires'], key, now).ret
             = ExistsNow(key)

C15_SweepAndGetUseTheSameTest == [][Sweep => SweepKeepsReads]_vars


(* C16: a GET of a key that is stored and expired answers null and        *)
(* removes the key from data and from expires, leaving the other keys as  *)
(* they were and the lock free; a GET of a key that is not expired, or    *)
(* not stored, leaves the store as it was and answers the stored value,   *)
(* or null.                                                               *)
GetEffect(c, key) ==
    IF key \in DOMAIN expires /\ now > expires[key]
    THEN /\ RepliesAfter(c) = <<NullReply>>
         /\ data' = Without(data, key)
         /\ expires' = Without(expires, key)
         /\ ~locked'
    ELSE /\ data' = data
         /\ expires' = expires
         /\ ~locked'
         /\ RepliesAfter(c) = IF key \in DOMAIN data
                             THEN <<Bulk(data[key].v)>>
                             ELSE <<NullReply>>

GetStep ==
    \A c \in Conns : \A key \in Keys :
        (req'[c] = Command(<<GET, key>>) /\ Receive(c, Command(<<GET, key>>)))
            => GetEffect(c, key)

C16_GetRemovesOnlyItsExpiredKey == [][GetStep]_vars

(* A GET of a found it expired, answered null and removed it, and b, set  *)
(* with a TTL that has not passed, is stored with its expiry              *)
C16_Witness ==
    \E c \in Conns :
        /\ req[c] = Command(<<GET, <<"a">> >>)
        /\ <<"a">> \in DOMAIN pre[c].expires
        /\ pre[c].now > pre[c].expires[<<"a">>]
        /\ <<"a">> \in DOMAIN pre[c].data
        /\ writer[c].sent = <<NullReply>>
        /\ <<"a">> \notin DOMAIN data
        /\ <<"a">> \notin DOMAIN expires
        /\ <<"b">> \in DOMAIN data
        /\ <<"b">> \in DOMAIN expires


(* C17: a buffer that holds an array header of count n >= 0 and n whole   *)
(* elements, null bulk strings and null arrays among them, parses to the  *)
(* sequence of the n values, null at the places of the null elements,     *)
(* with the cursor at the end of the buffer; a negative count parses to   *)
(* the null marker.                                                       *)
Elements == {[bytes |-> Bulk(<<"v">>), val |-> PyBytes(<<"v">>)],
             [bytes |-> Bulk(ECHO), val |-> PyBytes(ECHO)],
             [bytes |-> <<":", "5", "\r", "\n">>, val |-> PyInt(5)],
             [bytes |-> NullBulk, val |-> PyNone],
             [bytes |-> NullArray, val |-> PyNone]}

ElementLists == {<<>>} \union {<<e>> : e \in Elements}
                  \union {<<e, f>> : e \in Elements, f \in Elements}

ArrayOf(elements) == Array([i \in 1..Len(elements) |-> elements[i].bytes])

ParsesTo(res, elements, end) ==
    /\ res.ok
    /\ res.index = end
    /\ res.val.t = "list"
    /\ Len(res.val.v) = Len(elements)
    /\ \A i \in 1..Len(elements) :
         /\ res.val.v[i].t = elements[i].val.t
         /\ res.val.v[i].t # "none" => res.val.v[i] = elements[i].val

C17_ArrayParsesItsWholeElements ==
    \A c \in Conns :
        /\ \A elements \in ElementLists :
             req[c] = ArrayOf(elements) =>
                ParsesTo(parse(req[c], 0), elements, Len(req[c]))
        /\ req[c] = NullArray =>
             (parse(req[c], 0).ok /\ parse(req[c], 0).val.t = "none")


(* C18: after every step, each handler whose last chunk was not empty has *)
(* written exactly one reply to it; and a chunk that holds two whole      *)
(* commands is handled as its first command alone: the same store calls,  *)
(* the same store, the same single reply, the same next position, under  *)
(* the same state of the transport.                                       *)
OneReplyPerChunk ==
    \A c \in Conns : req'[c] # <<>> => Len(RepliesAfter(c)) = 1

AsAlone(c, alone) ==
    /\ data' = alone.db.data
    /\ expires' = alone.db.expires
    /\ calls'[c] = alone.db.calls
    /\ writer'[c] = alone.writer
    /\ pc'[c] = Position(alone)

FirstCommandOnly ==
    \A c \in Conns : \A pair \in Pipelines :
        (req'[c] = pair[1] \o pair[2] /\ Receive(c, pair[1] \o pair[2])) =>
            AsAlone(c, handle_client(Database,
                                     WriterAt(c, writer'[c].paused, writer'[c].reset),
                                     pair[1], now))

ChunkStep == OneReplyPerChunk /\ FirstCommandOnly

C18_OneCommandPerChunk == [][ChunkStep]_vars


(* C19: in every state every key of expires is a key of data, and no      *)
(* removal was attempted on a key that data does not hold: no get raised  *)
(* KeyError and the sweep task has not failed.                            *)
C19_ExpiringKeysAreStored ==
    /\ DOMAIN expires \subseteq DOMAIN data
    /\ sweeper # "failed"
    /\ \A c \in Conns : \A i \in 1..Len(calls[c]) : calls[c][i].ret.t # "str"

(* A GET removed b on expiry, from both maps, while a, expired as well,   *)
(* is still in both                                                       *)
C19_Witness ==
    \E c \in Conns :
        /\ req[c] = Command(<<GET, <<"b">> >>)
        /\ <<"b">> \in DOMAIN pre[c].expires
        /\ pre[c].now > pre[c].expires[<<"b">>]
        /\ <<"b">> \notin DOMAIN data
        /\ <<"b">> \notin DOMAIN expires
        /\ <<"a">> \in DOMAIN expires
        /\ <<"a">> \in DOMAIN data
        /\ now > expires[<<"a">>]


(* C20: in the running server, an entry whose expiry has passed and that  *)
(* is still stored is eventually removed from the store, or replaced,     *)
(* whether or not a client touches its key again.                         *)
ExpiredAndStored(key) ==
    /\ key \in DOMAIN data
    /\ key \in DOMAIN expires
    /\ now > expires[key]

C20_ExpiredEntriesAreReclaimed ==
    \A key \in Keys : ExpiredAndStored(key) ~> ~ExpiredAndStored(key)

====
